---------------------------- MODULE Spec2Model ----------------------------
(***************************************************************************)
(* Cairo Traffic Dashboard (src/new.py): the Streamlit script as a state   *)
(* machine.  One script run (top to bottom) is one step; the session state *)
(* (df, alerts, running) persists between runs.                            *)
(*                                                                         *)
(* Units.  Instants are integer milliseconds.  Speeds and percentages are  *)
(* integers in hundredths (the code rounds both to two decimals); raw      *)
(* random speeds are in thousandths of a km/h.  Strings that the code      *)
(* formats, joins or splits are sequences of one-character strings.        *)
(***************************************************************************)
EXTENDS Integers, Sequences, FiniteSets, TLC

VARIABLES
    df,          \* st.session_state.df: the Event Store, a sequence of readings
    alerts,      \* st.session_state.alerts: the Alert Log
    running,     \* st.session_state.running
    mode,        \* sidebar selectbox "Mode"
    interval,    \* sidebar slider "Refresh interval (seconds)"
    run_sim,     \* button "Start / Resume" as seen by the last script run
    stop_sim,    \* button "Stop"
    reset_data,  \* button "Reset Data"
    now,         \* the wall clock, in milliseconds
    ev,          \* script global ev: the reading of the last tick
    detected,    \* script global detected: detect_anomaly(ev) of the last tick
    exc,         \* "none", or the exception that ended the last script run
    ticks,       \* history: number of readings generated so far
    appended     \* history: the readings appended since the store was last empty

vars == <<df, alerts, running, mode, interval, run_sim, stop_sim, reset_data,
          now, ev, detected, exc, ticks, appended>>

-----------------------------------------------------------------------------
(* Settings / Constants *)

SIM_DEFAULT_INTERVAL == 5

MAX_EVENTS_KEEP == 5000

LOCATIONS ==
    << [id |-> "LOC001", name |-> "Tahrir Square",              lat |-> 300444, lon |-> 312357, cap |-> 120],
       [id |-> "LOC002", name |-> "Ramses Square",              lat |-> 300626, lon |-> 312497, cap |-> 150],
       [id |-> "LOC003", name |-> "6th October Bridge",         lat |-> 300626, lon |-> 312444, cap |-> 100],
       [id |-> "LOC004", name |-> "Nasr City - Abbas El Akkad", lat |-> 300515, lon |-> 313381, cap |-> 80],
       [id |-> "LOC005", name |-> "Heliopolis - Uruba Street",  lat |-> 300808, lon |-> 313239, cap |-> 90],
       [id |-> "LOC006", name |-> "Maadi Corniche",             lat |-> 299594, lon |-> 312584, cap |-> 60],
       [id |-> "LOC007", name |-> "Ahmed Orabi Square",         lat |-> 300618, lon |-> 312001, cap |-> 110] >>

VEHICLE_TYPES ==
    <<"Car", "Taxi", "Bus", "Microbus", "Truck", "Motorcycle", "Delivery Van">>

WEATHER_CONDITIONS ==
    <<"Clear", "Cloudy", "Light Rain", "Heavy Rain", "Foggy", "Sandstorm">>

\* The incident names, spelled out character by character.
TRAFFIC_INCIDENTS ==
    << <<"N","o","n","e">>,
       <<"M","i","n","o","r"," ","A","c","c","i","d","e","n","t">>,
       <<"M","a","j","o","r"," ","A","c","c","i","d","e","n","t">>,
       <<"V","e","h","i","c","l","e"," ","B","r","e","a","k","d","o","w","n">>,
       <<"R","o","a","d"," ","C","o","n","s","t","r","u","c","t","i","o","n">>,
       <<"P","o","l","i","c","e"," ","C","h","e","c","k","p","o","i","n","t">> >>

\* The literal "None" that the generator and the detector compare with.
NoneStr == <<"N","o","n","e">>

\* The two values of the Mode selectbox.
LocalSimulator == "Local Simulator (built-in)"

EventHub == "Event Hub (placeholder)"

-----------------------------------------------------------------------------
(* IEEE-754 double multiplication, as Python's float * float.  A double is *)
(* [m, e] with value m * 2^e; m is a natural number of at most 53 bits     *)
(* (2^53 itself included), held as little-endian limbs in base 2^14.       *)

LimbBase == 16384

LimbBits == 14

MantissaBits == 53

Pow2(k) == 2 ^ k

RECURSIVE BigStrip(_)
BigStrip(a) ==
    IF a = <<>> THEN <<>>
    ELSE IF a[Len(a)] = 0 THEN BigStrip(SubSeq(a, 1, Len(a) - 1))
    ELSE a

RECURSIVE BigFromInt(_)
BigFromInt(n) ==
    IF n = 0 THEN <<>> ELSE <<n % LimbBase>> \o BigFromInt(n \div LimbBase)

RECURSIVE BigToInt(_)
BigToInt(a) ==
    IF a = <<>> THEN 0 ELSE a[1] + LimbBase * BigToInt(Tail(a))

Limb(a, i) == IF i >= 1 /\ i <= Len(a) THEN a[i] ELSE 0

RECURSIVE ColumnSum(_, _, _, _)
\* sum of a[i] * b[k + 1 - i] for i in lo..k
ColumnSum(a, b, k, i) ==
    IF i > k THEN 0
    ELSE Limb(a, i) * Limb(b, k + 1 - i) + ColumnSum(a, b, k, i + 1)

RECURSIVE MulColumns(_, _, _, _)
MulColumns(a, b, k, carry) ==
    IF k > Len(a) + Len(b)
    THEN <<>>
    ELSE LET s == ColumnSum(a, b, k, 1) + carry
         IN  <<s % LimbBase>> \o MulColumns(a, b, k + 1, s \div LimbBase)

BigMul(a, b) == BigStrip(MulColumns(a, b, 1, 0))

RECURSIVE IntBitLen(_)
IntBitLen(n) == IF n = 0 THEN 0 ELSE 1 + IntBitLen(n \div 2)

BigBitLen(a) ==
    IF a = <<>> THEN 0 ELSE LimbBits * (Len(a) - 1) + IntBitLen(a[Len(a)])

\* bit k (k = 0 is the lowest) of a
BigBit(a, k) == (Limb(a, k \div LimbBits + 1) \div Pow2(k % LimbBits)) % 2

\* TRUE iff the bits below bit k of a are all 0
BigLowZero(a, k) ==
    /\ \A i \in 1..(k \div LimbBits) : Limb(a, i) = 0
    /\ Limb(a, k \div LimbBits + 1) % Pow2(k % LimbBits) = 0

\* floor(a / 2^s)
BigShr(a, s) ==
    LET w == s \div LimbBits
        t == s % LimbBits
    IN  BigStrip([i \in 1..(IF Len(a) > w THEN Len(a) - w ELSE 0) |->
                    (Limb(a, i + w) \div Pow2(t))
                    + (Limb(a, i + w + 1) % Pow2(t)) * Pow2(LimbBits - t)])

RECURSIVE BigInc(_)
BigInc(a) ==
    IF a = <<>> THEN <<1>>
    ELSE IF a[1] + 1 < LimbBase THEN <<a[1] + 1>> \o Tail(a)
    ELSE <<0>> \o BigInc(Tail(a))

\* round-to-nearest, ties-to-even, of the exact value p * 2^e
RoundToDouble(p, e) ==
    LET len == BigBitLen(p)
        s   == len - MantissaBits
        q   == BigShr(p, s)
        up  == /\ BigBit(p, s - 1) = 1
               /\ (~BigLowZero(p, s - 1) \/ BigBit(q, 0) = 1)
    IN  IF len <= MantissaBits THEN [m |-> p, e |-> e]
        ELSE [m |-> IF up THEN BigInc(q) ELSE q, e |-> e + s]

DoubleMul(x, y) == RoundToDouble(BigMul(x.m, y.m), x.e + y.e)

DoubleFromInt(n) == [m |-> BigFromInt(n), e |-> 0]

\* Python's int() of a non-negative double: truncation
DoubleToInt(x) ==
    IF x.e >= 0 THEN BigToInt(x.m) * Pow2(x.e) ELSE BigToInt(BigShr(x.m, -x.e))

\* The doubles that Python reads the source's decimal literals as, by the
\* literal's value in tenths (0.3 = 0x1.3333333333333p-2, ...).
DoubleLiteral(tenths) ==
    CASE tenths = 3  -> [m |-> <<13107, 3276, 13107, 1228>>, e |-> -54]
      [] tenths = 12 -> [m |-> <<13107, 3276, 13107, 1228>>, e |-> -52]
      [] tenths = 15 -> [m |-> <<0, 0, 0, 1536>>,            e |-> -52]
      [] tenths = 14 -> [m |-> <<9830, 6553, 9830, 1433>>,   e |-> -52]
      [] tenths = 4  -> [m |-> <<6554, 9830, 6553, 1638>>,   e |-> -54]
      [] tenths = 10 -> [m |-> <<0, 0, 0, 1024>>,            e |-> -52]


-----------------------------------------------------------------------------
(* Helpers: traffic generation *)

Min(a, b) == IF a <= b THEN a ELSE b

Max(a, b) == IF a >= b THEN a ELSE b

\* Python's round(): n / d to the nearest integer, ties to the even one
RoundHalfEven(n, d) ==
    LET q == n \div d
        r == n % d
    IN  IF 2 * r < d THEN q
        ELSE IF 2 * r > d THEN q + 1
        ELSE IF q % 2 = 0 THEN q ELSE q + 1

\* The rush-hour factor of a local hour of day, in tenths.
calculate_rush_hour_factor(hour) ==
    IF 7 <= hour /\ hour <= 10 THEN 15
    ELSE IF 18 <= hour /\ hour <= 21 THEN 14
    ELSE IF hour <= 6 \/ hour >= 22 THEN 4
    ELSE 10

\* int(cap * k * rush_factor) in double arithmetic, left to right; k and
\* rush_factor are given in tenths
scaled_int(cap, k, rush_factor) ==
    DoubleToInt(DoubleMul(DoubleMul(DoubleFromInt(cap), DoubleLiteral(k)),
                          DoubleLiteral(rush_factor)))

\* scaled_int, evaluated once for the capacities of the registry
ScaledInt ==
    [cap \in {LOCATIONS[i].cap : i \in 1..Len(LOCATIONS)}, k \in {3, 12},
     rush_factor \in {4, 10, 14, 15} |-> scaled_int(cap, k, rush_factor)]

\* Mutant: the lower bound is taken with the upper bound's factor 1.2.
min_vehicles_swapped(cap, rush_factor) == Max(5, ScaledInt[cap, 12, rush_factor])

\* max(5, int(cap * 0.3 * rush_factor))
min_vehicles(cap, rush_factor) == Max(5, ScaledInt[cap, 3, rush_factor])

\* min(cap, int(cap * 1.2 * rush_factor))
max_vehicles(cap, rush_factor) == Min(cap, ScaledInt[cap, 12, rush_factor])

\* Number of steps the model divides the range of random.randint into.
VcGrain == 2

\* random.randint(lo, hi), the draw given as a step pick of 0..VcGrain
randint(lo, hi, pick) == lo + ((hi - lo) * pick) \div VcGrain

\* random.uniform(a, b) = a + (b - a) * random(), in thousandths; u is
\* random() in thousandths
uniform(a, b, u) == a * 1000 + (b - a) * u

\* int(min(cap * 1.5, vehicle_count * 1.8)).  1.5 is exact in binary and the
\* double 1.8 lies above 1.8, so the truncation equals that of the exact
\* product.
spike_count(cap, vehicle_count) == Min(cap * 15, vehicle_count * 18) \div 10

\* The speed in hundredths of a km/h, as stored: float(round(speed, 2)).
\* d.anomaly is random() < 0.05, d.severe is random() < 0.5, d.u the
\* random() behind the one uniform() call that runs.
speed_of(d, rush_factor) ==
    LET speed ==
            IF d.anomaly
            THEN IF d.severe THEN uniform(5, 15, d.u) ELSE uniform(85, 110, d.u)
            ELSE LET base_speed     == uniform(20, 80, d.u)
                     \* base_speed * 0.8 or * 1.2, in ten-thousandths
                     adjusted_speed == base_speed * (IF rush_factor > 10 THEN 8 ELSE 12)
                 IN  Max(5000, Min(110000, 100 * RoundHalfEven(adjusted_speed, 1000)))
    IN  RoundHalfEven(speed, 10)

\* A draw d is the outcome of every random call of one generation and the
\* local hour of day: [loc, hour, vc, spike, vtype, anomaly, severe, u,
\* weather, incident_roll, incident].
ValueError == [error |-> "ValueError"]

generate_realistic_traffic_data(t, d) ==
    LET location      == LOCATIONS[d.loc]
        rush_factor   == calculate_rush_hour_factor(d.hour)
        cap           == location.cap
        lo            == min_vehicles(cap, rush_factor)
        hi            == max_vehicles(cap, rush_factor)
        drawn         == randint(lo, hi, d.vc)
        vehicle_count == IF d.spike THEN spike_count(cap, drawn) ELSE drawn
    IN  IF lo > hi THEN ValueError
        ELSE [ Timestamp            |-> t \div 1000,
               ts                   |-> t,
               LocationID           |-> location.id,
               LocationName         |-> location.name,
               Latitude             |-> location.lat,
               Longitude            |-> location.lon,
               VehicleCount         |-> vehicle_count,
               AverageSpeedKMH      |-> speed_of(d, rush_factor),
               DominantVehicleType  |-> VEHICLE_TYPES[d.vtype],
               WeatherCondition     |-> WEATHER_CONDITIONS[d.weather],
               TrafficIncident      |-> IF d.incident_roll
                                        THEN TRAFFIC_INCIDENTS[d.incident]
                                        ELSE NoneStr,
               CongestionPercentage |-> RoundHalfEven(vehicle_count * 10000, cap),
               IsRushHour           |-> rush_factor > 10,
               RushFactor           |-> rush_factor * 10 ]

-----------------------------------------------------------------------------
(* Helpers: anomaly detection *)

LowSpeed == <<"L","o","w"," ","s","p","e","e","d">>

HighSpeed == <<"H","i","g","h"," ","s","p","e","e","d">>

OverCapacity == <<"O","v","e","r"," ","c","a","p","a","c","i","t","y">>

HighCongestion == <<"H","i","g","h"," ","c","o","n","g","e","s","t","i","o","n">>

IncidentPrefix == <<"I","n","c","i","d","e","n","t",":"," ">>

\* f"Incident: {event['TrafficIncident']}"
IncidentLabel(incident) == IncidentPrefix \o incident

\* Mutant: the congestion rules are two independent ifs (no elif).
detect_anomaly_no_elif(event) ==
    LET a1 == IF event.AverageSpeedKMH < 1000 THEN <<LowSpeed>> ELSE <<>>
        a2 == IF event.AverageSpeedKMH > 10000 THEN a1 \o <<HighSpeed>> ELSE a1
        a3 == IF event.CongestionPercentage > 12000 THEN a2 \o <<OverCapacity>> ELSE a2
        a4 == IF event.CongestionPercentage > 8500 THEN a3 \o <<HighCongestion>> ELSE a3
        a5 == IF event.TrafficIncident # NoneStr
              THEN a4 \o <<IncidentLabel(event.TrafficIncident)>>
              ELSE a4
    IN  a5

detect_anomaly(event) ==
    LET a1 == IF event.AverageSpeedKMH < 1000 THEN <<LowSpeed>> ELSE <<>>
        a2 == IF event.AverageSpeedKMH > 10000 THEN a1 \o <<HighSpeed>> ELSE a1
        a3 == IF event.CongestionPercentage > 12000 THEN a2 \o <<OverCapacity>>
              ELSE IF event.CongestionPercentage > 8500 THEN a2 \o <<HighCongestion>>
              ELSE a2
        a4 == IF event.TrafficIncident # NoneStr
              THEN a3 \o <<IncidentLabel(event.TrafficIncident)>>
              ELSE a3
    IN  a4

-----------------------------------------------------------------------------
(* Session state and the simulator tick *)

\* Mutant: the trim keeps one row too many (iloc[-(MAX_EVENTS_KEEP + 1):]).
append_event_keeps_one_more(store, e) ==
    LET grown == IF store = <<>> THEN <<e>> ELSE store \o <<e>>
    IN  IF Len(grown) > MAX_EVENTS_KEEP + 1
        THEN SubSeq(grown, Len(grown) - MAX_EVENTS_KEEP, Len(grown))
        ELSE grown

\* Mutant: the trim keeps the head of the frame (iloc[:MAX_EVENTS_KEEP]),
\* evicting the newest row.
append_event_keeps_head(store, e) ==
    LET grown == IF store = <<>> THEN <<e>> ELSE store \o <<e>>
    IN  IF Len(grown) > MAX_EVENTS_KEEP
        THEN SubSeq(grown, 1, MAX_EVENTS_KEEP)
        ELSE grown

append_event(store, e) ==
    LET grown == IF store = <<>> THEN <<e>> ELSE store \o <<e>>
    IN  IF Len(grown) > MAX_EVENTS_KEEP
        THEN SubSeq(grown, Len(grown) - MAX_EVENTS_KEEP + 1, Len(grown))
        ELSE grown

\* ", ".join(labels)
RECURSIVE join(_)
join(labels) ==
    IF labels = <<>> THEN <<>>
    ELSE IF Len(labels) = 1 THEN labels[1]
    ELSE labels[1] \o <<",", " ">> \o join(Tail(labels))

\* the alert record appended for reading e with labels found
alert_record(e, found) ==
    [timestamp |-> e.Timestamp, location |-> e.LocationName,
     event |-> join(found), raw |-> e]

\* Mutant: a record is appended for every reading, anomalous or not.
append_alert_always(log, e, found) == Append(log, alert_record(e, found))

\* Mutant: the log keeps the latest record only.
append_alert_latest_only(log, e, found) ==
    IF found # <<>> THEN <<alert_record(e, found)>> ELSE log

append_alert(log, e, found) ==
    IF found # <<>> THEN Append(log, alert_record(e, found)) ELSE log

\* The value of ev before the first tick of a session.
NoEvent == [undefined |-> TRUE]

\* Reset Data (lines 161-163): the store and the log after the button
reset_store(reset, store) == IF reset THEN <<>> ELSE store

\* Mutant: Reset Data leaves the alert log alone.
reset_log_kept(reset, log) == log

reset_log(reset, log) == IF reset THEN <<>> ELSE log

\* Start / Resume and Stop (lines 166-169): the running flag after them
next_running(flag, start, stop) ==
    IF stop THEN FALSE ELSE IF start THEN TRUE ELSE flag

\* Mutant: the tick ignores the running flag.
should_tick_unflagged(m, flag) == m = LocalSimulator

\* the condition of the simulator tick (line 187)
should_tick(m, flag) == m = LocalSimulator /\ flag

\* One run of the script, top to bottom, started at instant t with the
\* widgets reset, start, stop (buttons), m (mode) and iv (interval), the
\* random draws d, and limit bounding the number of readings generated.
\*   lines 161-164: Reset Data; 166-169: Start / Stop;
\*   lines 187-203: the simulator tick, which sleeps and reruns before any
\*   tab is drawn; otherwise the tabs are drawn, which changes no state.
Script(reset, start, stop, m, iv, t, d, limit) ==
    LET df1      == reset_store(reset, df)
        alerts1  == reset_log(reset, alerts)
        hist1    == IF reset THEN <<>> ELSE appended
        running1 == next_running(running, start, stop)
        e        == generate_realistic_traffic_data(t, d)
        found    == detect_anomaly(e)
    IN  /\ mode' = m
        /\ interval' = iv
        /\ run_sim' = start
        /\ stop_sim' = stop
        /\ reset_data' = reset
        /\ running' = running1
        /\ IF should_tick(m, running1)
           THEN /\ ticks < limit
                /\ IF e = ValueError
                   THEN /\ exc' = "ValueError"
                        /\ df' = df1
                        /\ alerts' = alerts1
                        /\ appended' = hist1
                        /\ now' = t
                        /\ UNCHANGED <<ev, detected, ticks>>
                   ELSE /\ exc' = "none"
                        /\ ev' = e
                        /\ df' = append_event(df1, e)
                        /\ detected' = found
                        /\ alerts' = append_alert(alerts1, e, found)
                        /\ appended' = IF df1 = <<>> THEN <<e>> ELSE Append(hist1, e)
                        /\ ticks' = ticks + 1
                        /\ now' = t + 1000 * iv
           ELSE /\ exc' = "none"
                /\ df' = df1
                /\ alerts' = alerts1
                /\ appended' = hist1
                /\ now' = t
                /\ UNCHANGED <<ev, detected, ticks>>

-----------------------------------------------------------------------------
(* The tabs: read-only views of the session state *)

FiveMinutes == 300000

OneHour == 3600000

OneDay == 86400000

WINDOWS == <<"Last 5 minutes", "Last 1 hour", "Last 24 hours", "All">>

RECURSIVE min_ts(_)
\* df["ts"].min() of a non-empty store
min_ts(store) ==
    IF Len(store) = 1 THEN store[1].ts
    ELSE Min(store[1].ts, min_ts(Tail(store)))

\* the cutoff of the Analytics tab for the chosen window at instant t
cutoff_of(window, t, store) ==
    IF window = "Last 5 minutes" THEN t - FiveMinutes
    ELSE IF window = "Last 1 hour" THEN t - OneHour
    ELSE IF window = "Last 24 hours" THEN t - OneDay
    ELSE min_ts(store)

\* Mutant: the mask is ts <= cutoff.
RECURSIVE filter_until(_, _)
filter_until(store, cutoff) ==
    IF store = <<>> THEN <<>>
    ELSE IF store[1].ts <= cutoff
         THEN <<store[1]>> \o filter_until(Tail(store), cutoff)
         ELSE filter_until(Tail(store), cutoff)

\* df[pd.to_datetime(df["ts"]) >= cutoff]: the rows whose mask is true, in
\* the store's order
RECURSIVE filter_since(_, _)
filter_since(store, cutoff) ==
    IF store = <<>> THEN <<>>
    ELSE IF store[1].ts >= cutoff
         THEN <<store[1]>> \o filter_since(Tail(store), cutoff)
         ELSE filter_since(Tail(store), cutoff)

\* Mutant: the label is cut at the first colon as well ("Incident").
RECURSIVE type_simple_colon(_)
type_simple_colon(s) ==
    IF s = <<>> THEN <<>>
    ELSE IF s[1] = "," \/ s[1] = ":" THEN <<>>
    ELSE <<s[1]>> \o type_simple_colon(Tail(s))

\* s.split(",")[0]: the characters before the first comma
RECURSIVE type_simple(_)
type_simple(s) ==
    IF s = <<>> THEN <<>>
    ELSE IF s[1] = "," THEN <<>>
    ELSE <<s[1]>> \o type_simple(Tail(s))

\* the column alerts_df["type_simple"]
type_column(log) == [i \in 1..Len(log) |-> type_simple(log[i].event)]

\* Series.value_counts(): the number of occurrences of each value
value_counts(column) ==
    [v \in {column[i] : i \in 1..Len(column)} |->
        Cardinality({i \in 1..Len(column) : column[i] = v})]

-----------------------------------------------------------------------------
(* Inputs *)

\* A reading with no anomaly: Tahrir Square at noon, lightest count, 60 km/h.
NominalDraw ==
    [loc |-> 1, hour |-> 12, vc |-> 0, spike |-> FALSE, vtype |-> 1,
     anomaly |-> FALSE, severe |-> FALSE, u |-> 500, weather |-> 1,
     incident_roll |-> FALSE, incident |-> 1]

\* 9.99 km/h in the morning rush with a minor accident.
LowSpeedIncidentDraw ==
    [loc |-> 3, hour |-> 8, vc |-> 1, spike |-> FALSE, vtype |-> 3,
     anomaly |-> TRUE, severe |-> TRUE, u |-> 499, weather |-> 3,
     incident_roll |-> TRUE, incident |-> 2]

\* A congestion spike to 150 % at 110 km/h in the evening rush.
OverCapacityDraw ==
    [loc |-> 6, hour |-> 19, vc |-> VcGrain, spike |-> TRUE, vtype |-> 2,
     anomaly |-> TRUE, severe |-> FALSE, u |-> 1000, weather |-> 6,
     incident_roll |-> FALSE, incident |-> 1]

\* 100 % congestion; the incident roll succeeds and picks "None".
HighCongestionDraw ==
    [loc |-> 3, hour |-> 8, vc |-> VcGrain, spike |-> FALSE, vtype |-> 5,
     anomaly |-> FALSE, severe |-> FALSE, u |-> 0, weather |-> 2,
     incident_roll |-> TRUE, incident |-> 1]

\* An unremarkable reading but for a major accident.
IncidentOnlyDraw ==
    [loc |-> 2, hour |-> 23, vc |-> 1, spike |-> FALSE, vtype |-> 4,
     anomaly |-> FALSE, severe |-> FALSE, u |-> 250, weather |-> 4,
     incident_roll |-> TRUE, incident |-> 3]

TickDraws ==
    {NominalDraw, LowSpeedIncidentDraw, OverCapacityDraw, HighCongestionDraw,
     IncidentOnlyDraw}

\* Outcomes of random() behind uniform(), in thousandths, that put the speed
\* on and beside the detector's thresholds (9.99, 10.0, 100.0, 100.05 km/h).
SpeedDraws == {0, 499, 500, 600, 602, 1000}

\* Every location and hour of day, the ends of the randint range, and the
\* speed and incident outcomes above.
BroadDraws ==
    { [loc |-> l, hour |-> h, vc |-> v, spike |-> sp, vtype |-> 1,
       anomaly |-> a, severe |-> sv, u |-> u, weather |-> 1,
       incident_roll |-> (i # 0), incident |-> IF i = 0 THEN 1 ELSE i] :
        l \in 1..Len(LOCATIONS), h \in 0..23, v \in {0, VcGrain},
        sp \in BOOLEAN, a \in BOOLEAN, sv \in BOOLEAN, u \in SpeedDraws,
        i \in {0, 1, 2} }

MODES == {LocalSimulator, EventHub}

\* The slider's range is 1..5; the model uses its two ends.
INTERVALS == {1, SIM_DEFAULT_INTERVAL}

\* The instant the session starts at, in milliseconds.
StartInstant == 1700000250

-----------------------------------------------------------------------------
(* The dashboard session: any button, any mode, a few ticks *)

MaxTicks == 2

Init ==
    /\ df = <<>>
    /\ alerts = <<>>
    /\ running = FALSE
    /\ mode = LocalSimulator
    /\ interval = SIM_DEFAULT_INTERVAL
    /\ run_sim = FALSE
    /\ stop_sim = FALSE
    /\ reset_data = FALSE
    /\ now = StartInstant
    /\ ev = NoEvent
    /\ detected = <<>>
    /\ exc = "none"
    /\ ticks = 0
    /\ appended = <<>>

\* A run no button started: the rerun after the sleep, or a widget change.
Rerun ==
    \E m \in MODES, iv \in INTERVALS, d \in TickDraws :
        Script(FALSE, FALSE, FALSE, m, iv, now, d, MaxTicks)

ClickStart ==
    \E m \in MODES, iv \in INTERVALS, d \in TickDraws :
        Script(FALSE, TRUE, FALSE, m, iv, now, d, MaxTicks)

ClickStop ==
    \E m \in MODES, iv \in INTERVALS, d \in TickDraws :
        Script(FALSE, FALSE, TRUE, m, iv, now, d, MaxTicks)

ClickReset ==
    \E m \in MODES, iv \in INTERVALS, d \in TickDraws :
        Script(TRUE, FALSE, FALSE, m, iv, now, d, MaxTicks)

Next == Rerun \/ ClickStart \/ ClickStop \/ ClickReset

Spec == Init /\ [][Next]_vars

-----------------------------------------------------------------------------
(* The long run: the simulator left running until the store is full and    *)
(* evicts.  The stream is the nominal reading, with a free choice for the  *)
(* first reading and for the readings appended to the full store.          *)
(* RampSpec is the whole run from the fresh session.  SoakSpec takes the   *)
(* run up at SoakInit, the session RampSpec is in after Prefill ticks      *)
(* (SoakInitReached), with the operator then free to stop, restart and     *)
(* reset.                                                                  *)

MaxExtra == 5

SoakLimit == MAX_EVENTS_KEEP + MaxExtra

\* the draws of the n-th reading of the soak run
SoakDraws(n) ==
    IF n = 1 THEN {NominalDraw, LowSpeedIncidentDraw}
    ELSE IF n > MAX_EVENTS_KEEP THEN {NominalDraw, OverCapacityDraw}
    ELSE {NominalDraw}

SoakStart ==
    /\ ~running
    /\ \E d \in SoakDraws(ticks + 1) :
        Script(FALSE, TRUE, FALSE, LocalSimulator, SIM_DEFAULT_INTERVAL, now, d, SoakLimit)

SoakRerun ==
    /\ running
    /\ \E d \in SoakDraws(ticks + 1) :
        Script(FALSE, FALSE, FALSE, LocalSimulator, SIM_DEFAULT_INTERVAL, now, d, SoakLimit)

\* Reset Data pressed once the store has filled up
SoakReset ==
    /\ running
    /\ ticks >= MAX_EVENTS_KEEP
    /\ \E d \in SoakDraws(ticks + 1) :
        Script(TRUE, FALSE, FALSE, LocalSimulator, SIM_DEFAULT_INTERVAL, now, d, SoakLimit)

SoakStop ==
    /\ running
    /\ \E d \in SoakDraws(ticks + 1) :
        Script(FALSE, FALSE, TRUE, LocalSimulator, SIM_DEFAULT_INTERVAL, now, d, SoakLimit)

RampNext == SoakStart \/ SoakRerun

RampSpec == Init /\ [][RampNext]_vars

\* the ticks already done when SoakSpec takes the run up
Prefill == MAX_EVENTS_KEEP - 2

\* the readings of the first n ticks of the long run, one per interval
SoakStore(first, n) ==
    [i \in 1..n |->
        generate_realistic_traffic_data(
            StartInstant + 1000 * SIM_DEFAULT_INTERVAL * (i - 1),
            IF i = 1 THEN first ELSE NominalDraw)]

\* the session after Prefill ticks of the long run
SoakInit ==
    \E first \in SoakDraws(1) :
        /\ df = SoakStore(first, Prefill)
        /\ alerts = append_alert(<<>>, df[1], detect_anomaly(df[1]))
        /\ running = TRUE
        /\ mode = LocalSimulator
        /\ interval = SIM_DEFAULT_INTERVAL
        /\ run_sim = FALSE
        /\ stop_sim = FALSE
        /\ reset_data = FALSE
        /\ now = StartInstant + 1000 * SIM_DEFAULT_INTERVAL * Prefill
        /\ ev = df[Prefill]
        /\ detected = detect_anomaly(ev)
        /\ exc = "none"
        /\ ticks = Prefill
        /\ appended = df

\* RampSpec, after Prefill ticks, is in a state of SoakInit
SoakInitReached == (ticks = Prefill) => SoakInit

SoakNext == SoakStart \/ SoakRerun \/ SoakStop \/ SoakReset

SoakSpec == SoakInit /\ [][SoakNext]_vars

-----------------------------------------------------------------------------
(* The generator and the detector on their own: one tick of a fresh        *)
(* session, over every location, every hour and the threshold speeds.      *)

GenStart ==
    /\ ticks = 0
    /\ \E d \in BroadDraws :
        Script(FALSE, TRUE, FALSE, LocalSimulator, SIM_DEFAULT_INTERVAL, now, d, 1)

GenNext == GenStart

GenSpec == Init /\ [][GenNext]_vars

-----------------------------------------------------------------------------
(* The time windows: the operator starts and stops the simulator and comes *)
(* back minutes, hours or a day later.                                     *)

MaxWindowTicks == 3

\* instants at which the operator comes back to the dashboard
RETURNS ==
    {StartInstant + FiveMinutes, StartInstant + OneHour + 1000,
     StartInstant + OneDay + 2000}

\* the instants a run can start at: at once, or on a later return
Later == {now} \cup {t \in RETURNS : t > now}

WindowRerun ==
    \E t \in Later :
        Script(FALSE, FALSE, FALSE, LocalSimulator, SIM_DEFAULT_INTERVAL, t, NominalDraw, MaxWindowTicks)

WindowStart ==
    \E t \in Later :
        Script(FALSE, TRUE, FALSE, LocalSimulator, SIM_DEFAULT_INTERVAL, t, NominalDraw, MaxWindowTicks)

WindowStop ==
    \E t \in Later :
        Script(FALSE, FALSE, TRUE, LocalSimulator, SIM_DEFAULT_INTERVAL, t, NominalDraw, MaxWindowTicks)

WindowNext == WindowRerun \/ WindowStart \/ WindowStop

WindowSpec == Init /\ [][WindowNext]_vars

-----------------------------------------------------------------------------
(* Properties *)

IsPrefix(a, b) ==
    /\ Len(a) <= Len(b)
    /\ \A i \in 1..Len(a) : a[i] = b[i]

RECURSIVE IsSubsequence(_, _)
\* a is b with some elements left out, the order kept
IsSubsequence(a, b) ==
    IF a = <<>> THEN TRUE
    ELSE IF b = <<>> THEN FALSE
    ELSE IF a[1] = b[1] THEN IsSubsequence(Tail(a), Tail(b))
    ELSE IsSubsequence(a, Tail(b))

Last(s) == s[Len(s)]

\* C1: after every append_event, also when resets are interleaved, the Event
\* Store holds at most MAX_EVENTS_KEEP readings.
C1_CapacityInvariant == Len(df) <= MAX_EVENTS_KEEP

\* C1 witness: the store is full and more than MAX_EVENTS_KEEP readings were
\* appended to it, so the trim has run.
C1_Witness ==
    /\ Len(df) = MAX_EVENTS_KEEP
    /\ Len(appended) > MAX_EVENTS_KEEP

\* C2: once MAX_EVENTS_KEEP + k readings (k >= 0) were appended to an empty
\* store, the store is exactly the last MAX_EVENTS_KEEP of them, in append
\* order.
C2_EvictionOrder ==
    Len(appended) >= MAX_EVENTS_KEEP =>
        /\ Len(df) = MAX_EVENTS_KEEP
        /\ \A i \in 1..MAX_EVENTS_KEEP :
              df[i] = appended[Len(appended) - MAX_EVENTS_KEEP + i]

\* C2 witness: 5005 readings appended; the first survivor is the 6th one.
C2_Witness ==
    /\ Len(appended) = MAX_EVENTS_KEEP + 5
    /\ df[1] = appended[6]
    /\ df[1] # appended[1]

\* C3: Start sets the running flag and Stop clears it; a script run whose
\* flag, after the buttons, is true in the Local Simulator mode generates
\* exactly one reading and appends it to the store; a run whose flag is false
\* appends no reading and no alert.
C3_TickPacing ==
    [][ LET base    == IF reset_data' THEN <<>> ELSE df
            logbase == IF reset_data' THEN <<>> ELSE alerts
        IN  /\ run_sim' => running'
            /\ stop_sim' => ~running'
            /\ (~run_sim' /\ ~stop_sim') => (running' = running)
            /\ (running' /\ mode' = LocalSimulator) =>
                  /\ ticks' = ticks + 1
                  /\ Len(df') = Min(Len(base) + 1, MAX_EVENTS_KEEP)
                  /\ Last(df') = ev'
                  /\ IsSubsequence(SubSeq(df', 1, Len(df') - 1), base)
            /\ ~running' =>
                  /\ ticks' = ticks
                  /\ df' = base
                  /\ alerts' = logbase
      ]_vars

\* C3 witness: two cycles with the flag set have appended two readings, the
\* second on the automatic rerun.
C3_Witness ==
    /\ running
    /\ mode = LocalSimulator
    /\ ~run_sim
    /\ ticks = 2
    /\ Len(df) = 2
    /\ Last(df) = ev

\* C4: a tick appends one AlertRecord when detect_anomaly finds a category
\* in the new reading, and none otherwise; the record carries that reading as
\* raw, with its Timestamp and LocationName.  A run without a tick appends
\* no record.
C4_AlertCreation ==
    [][ LET logbase == IF reset_data' THEN <<>> ELSE alerts
        IN  IF ticks' = ticks + 1
            THEN /\ Last(df') = ev'
                 /\ IF detect_anomaly(ev') # <<>>
                    THEN /\ Len(alerts') = Len(logbase) + 1
                         /\ IsPrefix(logbase, alerts')
                         /\ Last(alerts').raw = ev'
                         /\ Last(alerts').timestamp = ev'.Timestamp
                         /\ Last(alerts').location = ev'.LocationName
                    ELSE alerts' = logbase
            ELSE alerts' = logbase
      ]_vars

\* C4 witness: the last tick found an anomaly and its record ends the log.
C4_Witness ==
    /\ ticks > 0
    /\ detected # <<>>
    /\ alerts # <<>>
    /\ Last(alerts).raw = ev
    /\ Last(alerts).timestamp = ev.ts \div 1000

Has(l) == \E i \in 1..Len(detected) : detected[i] = l

\* the place of a label in the detector's rule order
Rank(l) ==
    IF l = LowSpeed THEN 1
    ELSE IF l = HighSpeed THEN 2
    ELSE IF l = OverCapacity \/ l = HighCongestion THEN 3
    ELSE 4

\* C5: detect_anomaly returns exactly the labels of the matching rules, in
\* rule order; Over capacity and High congestion never appear together; a
\* second call on the same reading returns the same labels.
C5_DetectorResult ==
    ev # NoEvent =>
        /\ Has(LowSpeed) <=> ev.AverageSpeedKMH < 1000
        /\ Has(HighSpeed) <=> ev.AverageSpeedKMH > 10000
        /\ Has(OverCapacity) <=> ev.CongestionPercentage > 12000
        /\ Has(HighCongestion) <=>
              (ev.CongestionPercentage > 8500 /\ ev.CongestionPercentage <= 12000)
        /\ Has(IncidentLabel(ev.TrafficIncident)) <=> ev.TrafficIncident # NoneStr
        /\ \A i \in 1..Len(detected) :
              detected[i] \in {LowSpeed, HighSpeed, OverCapacity, HighCongestion,
                               IncidentLabel(ev.TrafficIncident)}
        /\ \A i, j \in 1..Len(detected) :
              i < j => Rank(detected[i]) < Rank(detected[j])
        /\ ~(Has(OverCapacity) /\ Has(HighCongestion))
        /\ detect_anomaly(ev) = detected

\* C5 witness: a slow reading with a minor accident yields the two labels
\* "Low speed", "Incident: Minor Accident".
C5_Witness ==
    /\ ev # NoEvent
    /\ detected = <<LowSpeed, IncidentLabel(TRAFFIC_INCIDENTS[2])>>

\* C6: a run with Reset Data pressed empties the Event Store and the Alert
\* Log before its tick: after the run they hold nothing, or only the reading
\* of that run's tick and its alert.
C6_Reset ==
    [][ reset_data' =>
          IF ticks' = ticks
          THEN df' = <<>> /\ alerts' = <<>>
          ELSE /\ df' = <<ev'>>
               /\ Len(alerts') <= 1
               /\ \A i \in 1..Len(alerts') : alerts'[i].raw = ev'
      ]_vars

\* C6 witness: after readings and an alert, a reset has left both empty.
C6_Witness ==
    /\ reset_data
    /\ ticks >= 1
    /\ detected # <<>>
    /\ df = <<>>
    /\ alerts = <<>>

\* C7: but for a reset, every script run leaves the Alert Log as it was or
\* appends to its tail, also when the tick evicts from the Event Store.
C7_AlertLogRetention ==
    [][ ~reset_data' => IsPrefix(alerts, alerts') ]_vars

\* C7 witness: the store is full and has evicted the reading that the first
\* record of the log was raised for.
C7_Witness ==
    /\ alerts # <<>>
    /\ Len(df) = MAX_EVENTS_KEEP
    /\ alerts[1].raw.ts < df[1].ts

\* C8: for every location and every hour of day the lower bound of the
\* vehicle count is not above the upper bound, and no generation fails.
C8_GenerationNeverFails ==
    /\ exc = "none"
    /\ {calculate_rush_hour_factor(h) : h \in 0..23} = {4, 10, 14, 15}
    /\ \A l \in 1..Len(LOCATIONS), h \in 0..23 :
          min_vehicles(LOCATIONS[l].cap, calculate_rush_hour_factor(h))
              <= max_vehicles(LOCATIONS[l].cap, calculate_rush_hour_factor(h))

\* C8 witness: a reading generated at night (factor 0.4) for the smallest
\* location, drawn at the lower bound.
C8_Witness ==
    /\ ev # NoEvent
    /\ ev.LocationID = "LOC006"
    /\ ev.RushFactor = 40
    /\ ev.VehicleCount = min_vehicles(60, 4)

\* the cutoffs the tabs can compute now, and the instants around each reading
Cutoffs ==
    IF df = <<>> THEN {}
    ELSE {cutoff_of(WINDOWS[w], now, df) : w \in 1..Len(WINDOWS)}
         \cup {df[i].ts : i \in 1..Len(df)}
         \cup {df[i].ts + 1 : i \in 1..Len(df)}

\* C9: for cutoffs T1 <= T2 the window since T1 includes every reading of
\* the window since T2, and each window keeps the store's order.
C9_WindowMonotonicity ==
    \A T1, T2 \in Cutoffs :
        T1 <= T2 =>
            /\ IsSubsequence(filter_since(df, T2), filter_since(df, T1))
            /\ IsSubsequence(filter_since(df, T1), df)

\* C9 witness: three readings, of which the last hour holds two and the last
\* five minutes one.
C9_Witness ==
    /\ Len(df) = 3
    /\ Len(filter_since(df, now - OneHour)) = 2
    /\ Len(filter_since(df, now - FiveMinutes)) = 1

RECURSIVE SumCounts(_, _)
SumCounts(f, S) ==
    IF S = {} THEN 0
    ELSE LET v == CHOOSE x \in S : TRUE
         IN  f[v] + SumCounts(f, S \ {v})

\* C10: every alert record is grouped under the first category that
\* detect_anomaly gives for its source reading, and the counts by type add
\* up to the number of records.
C10_PrimaryCategoryCounts ==
    LET column == type_column(alerts)
        counts == value_counts(column)
        first(i) == detect_anomaly(alerts[i].raw)[1]
    IN  /\ \A i \in 1..Len(alerts) :
              /\ detect_anomaly(alerts[i].raw) # <<>>
              /\ column[i] = first(i)
        /\ SumCounts(counts, DOMAIN counts) = Len(alerts)
        /\ \A v \in DOMAIN counts :
              counts[v] = Cardinality({i \in 1..Len(alerts) : first(i) = v})

\* C10 witness: two records with two categories each, counted under the
\* same first category.
C10_Witness ==
    /\ Len(alerts) = 2
    /\ Len(detect_anomaly(alerts[1].raw)) = 2
    /\ type_simple(alerts[1].event) = type_simple(alerts[2].event)
    /\ value_counts(type_column(alerts))[LowSpeed] = 2

=============================================================================
